---- MODULE Spec2Model ----
(***************************************************************************)
(* Versioned static-asset reverse proxy (cra-version-proxy).               *)
(*                                                                         *)
(* Handler chain, outermost first (main):                                  *)
(*     AppRewrite -> VersionSwitch -> fileServer                           *)
(* Paths, version tokens and cookie values are sequences of one-character  *)
(* strings, so that path.Clean, path.Join, path.Ext and url.PathEscape are *)
(* computed character by character as the library computes them.          *)
(***************************************************************************)
EXTENDS Integers, Sequences, FiniteSets, TLC

(***************************************************************************)
(* Strings as character sequences.                                         *)
(***************************************************************************)
Slash == "/"
Dot == "."

RECURSIVE SplitAcc(_, _, _)
SplitAcc(s, cur, acc) ==
    IF s = <<>> THEN Append(acc, cur)
    ELSE IF Head(s) = Slash THEN SplitAcc(Tail(s), <<>>, Append(acc, cur))
    ELSE SplitAcc(Tail(s), Append(cur, Head(s)), acc)

\* strings.Split(s, "/"): the slash-separated elements of s, empty ones kept
Split(s) == SplitAcc(s, <<>>, <<>>)

RECURSIVE JoinSegs(_)
\* strings.Join(segs, "/")
JoinSegs(segs) ==
    IF segs = <<>> THEN <<>>
    ELSE IF Len(segs) = 1 THEN Head(segs)
    ELSE Head(segs) \o <<Slash>> \o JoinSegs(Tail(segs))

RECURSIVE CleanStack(_, _, _)
\* path.Clean's element rules, applied left to right on the elements of a path
CleanStack(segs, rooted, stack) ==
    IF segs = <<>> THEN stack
    ELSE LET e == Head(segs)
             rest == Tail(segs)
         IN  IF e = <<>> \/ e = <<Dot>> THEN CleanStack(rest, rooted, stack)
             ELSE IF e = <<Dot, Dot>> THEN
                 IF stack # <<>> /\ stack[Len(stack)] # <<Dot, Dot>>
                     THEN CleanStack(rest, rooted, SubSeq(stack, 1, Len(stack) - 1))
                 ELSE IF rooted THEN CleanStack(rest, rooted, stack)
                 ELSE CleanStack(rest, rooted, Append(stack, e))
             ELSE CleanStack(rest, rooted, Append(stack, e))

\* a Clean that keeps ".." elements at the start of a rooted path
CleanKeepsDotDot(p) ==
    IF p = <<>> THEN <<Dot>>
    ELSE LET rooted == Head(p) = Slash
             body == JoinSegs(CleanStack(Split(p), FALSE, <<>>))
         IN  IF rooted THEN <<Slash>> \o body
             ELSE IF body = <<>> THEN <<Dot>> ELSE body

\* path.Clean
Clean(p) ==
    IF p = <<>> THEN <<Dot>>
    ELSE LET rooted == Head(p) = Slash
             body == JoinSegs(CleanStack(Split(p), rooted, <<>>))
         IN  IF rooted THEN <<Slash>> \o body
             ELSE IF body = <<>> THEN <<Dot>> ELSE body

\* path.Join(a, b): empty elements are ignored, the rest joined by "/" and cleaned
Join(a, b) ==
    IF a # <<>> THEN Clean(a \o <<Slash>> \o b)
    ELSE IF b # <<>> THEN Clean(b)
    ELSE <<>>

RECURSIVE ExtFrom(_, _)
ExtFrom(p, i) ==
    IF i < 1 \/ p[i] = Slash THEN <<>>
    ELSE IF p[i] = Dot THEN SubSeq(p, i, Len(p))
    ELSE ExtFrom(p, i - 1)

\* path.Ext: the suffix from the final dot of the final element, or empty
Ext(p) == ExtFrom(p, Len(p))

\* url.PathEscape on one character: letters, digits and -_.~$&+=:@ are kept
EscapeChar(c) ==
    IF c = Slash THEN <<"%", "2", "F">>
    ELSE IF c = "%" THEN <<"%", "2", "5">>
    ELSE IF c = " " THEN <<"%", "2", "0">>
    ELSE <<c>>

RECURSIVE PathEscape(_)
\* url.PathEscape
PathEscape(s) ==
    IF s = <<>> THEN <<>> ELSE EscapeChar(Head(s)) \o PathEscape(Tail(s))

(***************************************************************************)
(* Bounds of the model and constants of the program.                       *)
(***************************************************************************)
MaxRequests == 3      \* requests accepted in one behaviour
MaxPolls == 2         \* fetches of default-version.txt by the background poller
MaxNow == 2           \* latest clock value a request is accepted at
Hour == 60            \* time.Hour, in minutes

Handlers == {"h1", "h2"}     \* goroutines serving requests concurrently

VERSION_COOKIE_NAME == "version-override"

IndexHtml == <<"/", "i", "n", "d", "e", "x", ".", "h", "t", "m", "l">>
AppJs == <<"/", "a", ".", "j", "s">>
Root == <<"/">>
V1 == <<"v", "1">>
V2 == <<"v", "2">>
DotDot == <<".", ".">>

\* sourceURL.Path of CRA_PROXY_SOURCE
SourcePath == <<"/", "s">>

\* CRA_PROXY_CACHE_DIR, the root of fileServer
CacheDir == <<"/", "d">>

\* the file http.Dir.Open opens and doCacheFetch creates for name
FullName(name) == Join(CacheDir, Clean(<<Slash>> \o name))

NoCookie == [present |-> FALSE, value |-> <<>>]
ReqCookie(v) == [present |-> TRUE, value |-> v]

(***************************************************************************)
(* AppRewrite and VersionSwitch.                                           *)
(***************************************************************************)
\* AppRewrite: a path without an extension becomes /index.html
AppRewrite(p) == IF Ext(p) = <<>> THEN IndexHtml ELSE p

\* VersionSwitch with the cookie consulted before the query parameter
ResolveVersionCookieFirst(query, cookie, dflt) ==
    IF cookie.present THEN [version |-> cookie.value, source |-> "cookie"]
    ELSE IF query # <<>> THEN [version |-> query, source |-> "query"]
    ELSE [version |-> dflt, source |-> "default"]

\* VersionSwitch, the version token and where it came from
ResolveVersion(query, cookie, dflt) ==
    IF query # <<>> THEN [version |-> query, source |-> "query"]
    ELSE IF cookie.present THEN [version |-> cookie.value, source |-> "cookie"]
    ELSE [version |-> dflt, source |-> "default"]

\* VersionSwitch, the cookies handed to http.SetCookie. A cookie read from the
\* request carries its name and value only; the handler sets Expires on it.
SwitchCookies(query, cookie, t) ==
    IF query # <<>> THEN
        <<[name |-> VERSION_COOKIE_NAME, value |-> query, path |-> <<"/">>,
           expires |-> t + Hour, httpOnly |-> FALSE]>>
    ELSE IF cookie.present THEN
        <<[name |-> VERSION_COOKIE_NAME, value |-> cookie.value, path |-> <<>>,
           expires |-> t + Hour, httpOnly |-> FALSE]>>
    ELSE <<>>

\* VersionSwitch with no-store left out of the cookie branch
SwitchCacheControlQueryOnly(query, cookie) ==
    IF query # <<>> THEN <<"no-store">> ELSE <<>>

\* VersionSwitch, the Cache-Control header it sets
SwitchCacheControl(query, cookie) ==
    IF query # <<>> \/ cookie.present THEN <<"no-store">> ELSE <<>>

\* VersionSwitch, the rewritten req.URL.Path
VersionPath(version, p) == Clean(<<Slash>> \o Join(PathEscape(version), p))

(***************************************************************************)
(* The origin and the serialized form of its responses.                    *)
(***************************************************************************)
OriginStatuses == {200, 404}

\* doCacheFetch, the path of the origin URL
OriginPath(name) == Join(SourcePath, name)

\* what the origin answers for a path: the status is the origin's choice, the
\* body names the path and the status, 200 responses carry a Cache-Control
OriginResponse(name, status) ==
    [status |-> status,
     cc |-> IF status = 200 THEN <<"max-age">> ELSE <<>>,
     body |-> <<OriginPath(name), status>>]

\* no response held: res before client.Get returns
NoResponse == [status |-> 0, cc |-> <<>>, body |-> <<>>]

Block(kind, status, cc, data) ==
    [kind |-> kind, status |-> status, cc |-> cc, data |-> data]
Hole == Block("hole", 0, <<>>, <<>>)

\* Response.Write: the status line and headers, then the body, as successive writes
Serialize(res) ==
    <<Block("head", res.status, res.cc, <<>>), Block("body", 0, <<>>, res.body)>>

RECURSIVE Holes(_)
Holes(n) == IF n <= 0 THEN <<>> ELSE <<Hole>> \o Holes(n - 1)

\* a write of block b at offset off (0-based) of a file with content f
WriteAt(f, off, b) ==
    IF off < Len(f) THEN [f EXCEPT ![off + 1] = b]
    ELSE f \o Holes(off - Len(f)) \o <<b>>

(***************************************************************************)
(* The cache directory: regular files by path; directories are the         *)
(* ancestors of files (os.MkdirAll) and the root.                          *)
(***************************************************************************)
IsUnder(dir, p) ==
    IF dir = Root THEN Len(p) > 1
    ELSE /\ Len(p) > Len(dir) + 1
         /\ SubSeq(p, 1, Len(dir)) = dir
         /\ p[Len(dir) + 1] = Slash

IsDir(fs, p) == p = Root \/ \E f \in DOMAIN fs : IsUnder(p, f)
AncestorIsFile(fs, p) == \E f \in DOMAIN fs : IsUnder(f, p)

\* http.Dir.Open: ENOENT, and ENOTDIR mapped by mapDirOpenError, are not-exist
OpenResult(fs, name) ==
    IF name \in DOMAIN fs THEN "file"
    ELSE IF IsDir(fs, name) THEN "dir"
    ELSE "notexist"

\* os.MkdirAll then os.Create
CreateResult(fs, name) ==
    IF AncestorIsFile(fs, name) THEN "enotdir"
    ELSE IF IsDir(fs, name) THEN "eisdir"
    ELSE "ok"

(***************************************************************************)
(* The response writer.                                                    *)
(***************************************************************************)
NewWriter ==
    [xcache |-> <<>>, cacheControl |-> <<>>, setCookie |-> <<>>,
     statuses |-> <<>>, body |-> <<>>]

\* doError
doError(rw) == [rw EXCEPT !.statuses = Append(@, 500)]

\* the status line the client receives: the first WriteHeader wins
ClientStatus(rw) == IF rw.statuses = <<>> THEN 200 ELSE Head(rw.statuses)

\* tryServeFile: the error it returns and the writer it leaves
tryServeFile(rw, fs, name) ==
    LET o == OpenResult(fs, name) IN
    IF o = "notexist" THEN [err |-> "notexist", rw |-> rw]
    ELSE IF o = "dir" THEN [err |-> "read", rw |-> rw]
    ELSE LET f == fs[name] IN
         IF f = <<>> \/ f[1].kind # "head" THEN [err |-> "parse", rw |-> rw]
         ELSE LET w == [rw EXCEPT !.cacheControl = @ \o f[1].cc,
                                  !.statuses = Append(@, f[1].status)]
              IN  IF Len(f) < 2 THEN [err |-> "copy", rw |-> w]
                  ELSE [err |-> "", rw |-> [w EXCEPT !.body = f[2].data]]

(***************************************************************************)
(* State.                                                                  *)
(***************************************************************************)
VARIABLES
    defaultVersion,   \* defaultVersionPoller's variable, read by the accessor
    poller,           \* the poller goroutine and its mutex
    now,              \* the clock, in minutes
    files,            \* the cache directory: path -> blocks of the file
    req,              \* per handler: the request it is serving
    accepted,         \* requests accepted so far
    originGets,       \* history: origin path -> GETs issued for it
    persisted         \* history: name -> response of the first completed doCacheFetch

vars == <<defaultVersion, poller, now, files, req, accepted, originGets, persisted>>

Idle ==
    [pc |-> "idle", origPath |-> <<>>, query |-> <<>>, cookie |-> NoCookie,
     at |-> 0, version |-> <<>>, source |-> "", name |-> <<>>, rw |-> NewWriter,
     res |-> NoResponse, off |-> 0, gets |-> 0, lookups |-> 0, created |-> FALSE,
     late |-> FALSE, observed |-> "", racing |-> FALSE, outcome |-> "",
     target |-> ""]

\* the handler chain up to the first line of tryServeFile: AppRewrite,
\* the chain with VersionSwitch outermost and AppRewrite applied to the prefixed path
ChainSwitchFirst(p, q, c, dflt, t) ==
    LET rv == ResolveVersion(q, c, dflt)
        prefixed == VersionPath(rv.version, p)
        newPath == IF Ext(prefixed) = <<>> THEN VersionPath(rv.version, IndexHtml)
                                          ELSE prefixed
    IN  [Idle EXCEPT !.pc = "lookup1", !.origPath = p, !.query = q, !.cookie = c,
                     !.at = t, !.version = rv.version, !.source = rv.source,
                     !.name = Clean(newPath),
                     !.rw = [NewWriter EXCEPT !.setCookie = SwitchCookies(q, c, t),
                                              !.cacheControl = SwitchCacheControl(q, c),
                                              !.xcache = <<"hit">>]]

\* AppRewrite, then VersionSwitch, then fileServer.ServeHTTP's X-Cache header and path.Clean
Chain(p, q, c, dflt, t) ==
    LET rv == ResolveVersion(q, c, dflt)
        newPath == VersionPath(rv.version, AppRewrite(p))
    IN  [Idle EXCEPT !.pc = "lookup1", !.origPath = p, !.query = q, !.cookie = c,
                     !.at = t, !.version = rv.version, !.source = rv.source,
                     !.name = Clean(newPath),
                     !.rw = [NewWriter EXCEPT !.setCookie = SwitchCookies(q, c, t),
                                              !.cacheControl = SwitchCacheControl(q, c),
                                              !.xcache = <<"hit">>]]

\* what a lookup finds at name
Observe(fs, name) ==
    LET o == OpenResult(fs, name) IN
    IF o # "file" THEN o
    ELSE IF \E s \in OriginStatuses : fs[name] = Serialize(OriginResponse(name, s))
         THEN "complete"
         ELSE "partial"

\* whether another handler is between os.Create and the end of res.Write for name
PutInProgress(h, name) ==
    \E g \in Handlers \ {h} : req[g].pc = "write" /\ req[g].name = name

\* strings.TrimSpace, on the bodies the origin serves for default-version.txt
TrimSpace(s) ==
    LET IsSpace(c) == c = " " \/ c = "\n"
        first == CHOOSE i \in 1..(Len(s) + 1) :
                    /\ \A j \in 1..(i - 1) : IsSpace(s[j])
                    /\ i <= Len(s) => ~IsSpace(s[i])
        last == CHOOSE i \in 0..Len(s) :
                    /\ \A j \in (i + 1)..Len(s) : IsSpace(s[j])
                    /\ i >= 1 => ~IsSpace(s[i])
    IN  IF first > last THEN <<>> ELSE SubSeq(s, first, last)

\* inputs of the concurrent specification
Paths == {Root, <<"/", ".", ".">>}
Queries == {<<>>, V2}
Cookies == {NoCookie, ReqCookie(V2)}
VersionFiles == {<<"v", "1">>, <<"v", "2", "\n">>}

(***************************************************************************)
(* Actions.                                                                *)
(***************************************************************************)
\* a request arrives: AppRewrite, VersionSwitch, fileServer.ServeHTTP up to the lookup.
\* When the version is the default, this is the deployment with
\* CRA_PROXY_DEFAULT_VERSION set, whose accessor returns the variable without a lock.
Accept(h, p, q, c) ==
    /\ req[h].pc = "idle"
    /\ accepted < MaxRequests
    /\ (q = <<>> /\ ~c.present) => poller.mode = "static"
    /\ LET r == Chain(p, q, c, defaultVersion, now)
       IN  req' = [req EXCEPT ![h] = [r EXCEPT !.late = (r.name \in DOMAIN persisted)]]
    /\ accepted' = accepted + 1
    /\ UNCHANGED <<defaultVersion, poller, now, files, originGets, persisted>>

\* a request with neither query parameter nor cookie arrives while the default
\* is polled: AppRewrite, VersionSwitch up to the accessor's mutex.RLock(),
\* which waits while the poller holds the mutex
AcceptRLock(h, p) ==
    /\ req[h].pc = "idle"
    /\ accepted < MaxRequests
    /\ poller.mode = "poll" /\ poller.pc # "locked"
    /\ req' = [req EXCEPT ![h] = [Idle EXCEPT !.pc = "rlocked", !.origPath = p, !.at = now]]
    /\ accepted' = accepted + 1
    /\ UNCHANGED <<defaultVersion, poller, now, files, originGets, persisted>>

\* the accessor returns defaultVersion and releases the read lock; VersionSwitch
\* goes on to fileServer.ServeHTTP up to the lookup
ReadDefault(h) ==
    /\ req[h].pc = "rlocked"
    /\ LET r == Chain(req[h].origPath, <<>>, NoCookie, defaultVersion, req[h].at)
       IN  req' = [req EXCEPT ![h] = [r EXCEPT !.late = (r.name \in DOMAIN persisted)]]
    /\ UNCHANGED <<defaultVersion, poller, now, files, accepted, originGets, persisted>>

\* fileServer.ServeHTTP, the first tryServeFile
Lookup1(h) ==
    /\ req[h].pc = "lookup1"
    /\ LET r == tryServeFile(req[h].rw, files, req[h].name)
           seen == Observe(files, req[h].name)
       IN  req' = [req EXCEPT ![h] =
               IF r.err = "notexist" THEN
                   [@ EXCEPT !.pc = "fetch", !.observed = seen, !.racing = PutInProgress(h, req[h].name),
                             !.lookups = @ + 1,
                             !.rw = [r.rw EXCEPT !.xcache = <<"miss">>]]
               ELSE IF r.err = "" THEN
                   [@ EXCEPT !.pc = "done", !.observed = seen, !.racing = PutInProgress(h, req[h].name),
                             !.lookups = @ + 1, !.rw = r.rw,
                             !.outcome = "hit"]
               ELSE
                   [@ EXCEPT !.pc = "done", !.observed = seen, !.racing = PutInProgress(h, req[h].name),
                             !.lookups = @ + 1, !.rw = doError(r.rw),
                             !.outcome = "lookup-error"]]
    /\ UNCHANGED <<defaultVersion, poller, now, files, accepted, originGets, persisted>>

CountGet(log, op) ==
    IF op \in DOMAIN log THEN [log EXCEPT ![op] = @ + 1] ELSE (op :> 1) @@ log

\* h is fetching or persisting key name
Putting(h, name) ==
    /\ req[h].pc \in {"fetch", "create", "write"}
    /\ req[h].name = name

\* doCacheFetch joining a put for the key that is already under way
FetchOkCoalesced(h, status) ==
    /\ req[h].pc = "fetch"
    /\ IF \E g \in Handlers \ {h} : Putting(g, req[h].name) /\ req[g].pc # "fetch"
       THEN /\ req' = [req EXCEPT ![h] = [@ EXCEPT !.pc = "lookup2"]]
            /\ UNCHANGED originGets
       ELSE /\ req' = [req EXCEPT ![h] =
                          [@ EXCEPT !.pc = "create", !.gets = @ + 1,
                                    !.res = OriginResponse(req[h].name, status)]]
            /\ originGets' = CountGet(originGets, OriginPath(req[h].name))
    /\ UNCHANGED <<defaultVersion, poller, now, files, accepted, persisted>>

\* doCacheFetch, client.Get answers
FetchOk(h, status) ==
    /\ req[h].pc = "fetch"
    /\ req' = [req EXCEPT ![h] =
                  [@ EXCEPT !.pc = "create", !.gets = @ + 1,
                            !.res = OriginResponse(req[h].name, status)]]
    /\ originGets' = CountGet(originGets, OriginPath(req[h].name))
    /\ UNCHANGED <<defaultVersion, poller, now, files, accepted, persisted>>

\* doCacheFetch with the cache file created before the origin is asked
FetchFailCreates(h) ==
    /\ req[h].pc = "fetch"
    /\ req' = [req EXCEPT ![h] =
                  [@ EXCEPT !.pc = "done", !.gets = @ + 1, !.rw = doError(@),
                            !.outcome = "transport"]]
    /\ files' = (req[h].name :> <<>>) @@ files
    /\ originGets' = CountGet(originGets, OriginPath(req[h].name))
    /\ UNCHANGED <<defaultVersion, poller, now, accepted, persisted>>

\* doCacheFetch, client.Get fails (timeout, refused connection): ServeHTTP calls doError
FetchFail(h) ==
    /\ req[h].pc = "fetch"
    /\ req' = [req EXCEPT ![h] =
                  [@ EXCEPT !.pc = "done", !.gets = @ + 1, !.rw = doError(@),
                            !.outcome = "transport"]]
    /\ originGets' = CountGet(originGets, OriginPath(req[h].name))
    /\ UNCHANGED <<defaultVersion, poller, now, files, accepted, persisted>>

\* doCacheFetch, os.MkdirAll and os.Create: the file is created or truncated
Create(h) ==
    /\ req[h].pc = "create"
    /\ IF CreateResult(files, req[h].name) = "ok"
       THEN /\ files' = (req[h].name :> <<>>) @@ files
            /\ req' = [req EXCEPT ![h] = [@ EXCEPT !.pc = "write", !.off = 0,
                                                   !.created = TRUE]]
       ELSE /\ files' = files
            /\ req' = [req EXCEPT ![h] = [@ EXCEPT !.pc = "done", !.rw = doError(@),
                                                   !.outcome = "create-error"]]
    /\ UNCHANGED <<defaultVersion, poller, now, accepted, originGets, persisted>>

\* doCacheFetch, one write of res.Write at the descriptor's own offset
WriteBlock(h) ==
    /\ req[h].pc = "write"
    /\ LET blocks == Serialize(req[h].res)
           last == req[h].off + 1 = Len(blocks)
       IN  /\ files' = IF req[h].name \in DOMAIN files
                           THEN [files EXCEPT ![req[h].name] =
                                    WriteAt(@, req[h].off, blocks[req[h].off + 1])]
                           ELSE files    \* unlinked meanwhile: the write is not visible
           /\ req' = [req EXCEPT ![h] =
                         [@ EXCEPT !.off = @ + 1,
                                   !.pc = IF last THEN "lookup2" ELSE "write"]]
           /\ persisted' =
                  IF last /\ req[h].name \notin DOMAIN persisted
                      THEN (req[h].name :> req[h].res) @@ persisted
                      ELSE persisted
    /\ UNCHANGED <<defaultVersion, poller, now, accepted, originGets>>

\* doCacheFetch, res.Write fails (disk full, origin body cut short)
WriteFail(h) ==
    /\ req[h].pc = "write"
    /\ req' = [req EXCEPT ![h] = [@ EXCEPT !.pc = "done", !.rw = doError(@),
                                           !.outcome = "write-error"]]
    /\ UNCHANGED <<defaultVersion, poller, now, files, accepted, originGets, persisted>>

\* ServeHTTP fetching again when the second lookup misses
Lookup2Refetch(h) ==
    /\ req[h].pc = "lookup2"
    /\ LET r == tryServeFile(req[h].rw, files, req[h].name)
           seen == Observe(files, req[h].name)
           race == PutInProgress(h, req[h].name)
       IN  req' = [req EXCEPT ![h] =
               IF r.err = "" THEN
                   [@ EXCEPT !.pc = "done", !.observed = seen, !.racing = race,
                             !.lookups = @ + 1, !.rw = r.rw, !.outcome = "miss"]
               ELSE IF r.err = "notexist" THEN
                   [@ EXCEPT !.pc = "fetch", !.observed = seen, !.racing = race,
                             !.lookups = @ + 1]
               ELSE
                   [@ EXCEPT !.pc = "done", !.observed = seen, !.racing = race,
                             !.lookups = @ + 1, !.rw = doError(r.rw),
                             !.outcome = "lookup2-error"]]
    /\ UNCHANGED <<defaultVersion, poller, now, files, accepted, originGets, persisted>>

\* fileServer.ServeHTTP, the second tryServeFile
Lookup2(h) ==
    /\ req[h].pc = "lookup2"
    /\ LET r == tryServeFile(req[h].rw, files, req[h].name)
           seen == Observe(files, req[h].name)
       IN  req' = [req EXCEPT ![h] =
               IF r.err = "" THEN
                   [@ EXCEPT !.pc = "done", !.observed = seen, !.racing = PutInProgress(h, req[h].name),
                             !.lookups = @ + 1, !.rw = r.rw,
                             !.outcome = "miss"]
               ELSE
                   [@ EXCEPT !.pc = "done", !.observed = seen, !.racing = PutInProgress(h, req[h].name),
                             !.lookups = @ + 1, !.rw = doError(r.rw),
                             !.outcome = "lookup2-error"]]
    /\ UNCHANGED <<defaultVersion, poller, now, files, accepted, originGets, persisted>>

\* the response is complete; the goroutine takes the next request
Finish(h) ==
    /\ req[h].pc = "done"
    /\ req' = [req EXCEPT ![h] = Idle]
    /\ UNCHANGED <<defaultVersion, poller, now, files, accepted, originGets, persisted>>

\* defaultVersionPoller, fetchVersion returns a version
PollOk(body) ==
    /\ poller.mode = "poll" /\ poller.pc = "fetch" /\ poller.polls < MaxPolls
    /\ poller' = [poller EXCEPT !.pc = "lock", !.newVersion = TrimSpace(body),
                                !.polls = @ + 1, !.fetched = TrimSpace(body)]
    /\ UNCHANGED <<defaultVersion, now, files, req, accepted, originGets, persisted>>

\* defaultVersionPoller storing the empty string fetchVersion returns with an error
PollFailStores ==
    /\ poller.mode = "poll" /\ poller.pc = "fetch" /\ poller.polls < MaxPolls
    /\ poller' = [poller EXCEPT !.polls = @ + 1, !.failures = @ + 1]
    /\ defaultVersion' = <<>>
    /\ UNCHANGED <<now, files, req, accepted, originGets, persisted>>

\* defaultVersionPoller, fetchVersion fails (transport error, status other
\* than 200, read error): sleep and poll again
PollFail ==
    /\ poller.mode = "poll" /\ poller.pc = "fetch" /\ poller.polls < MaxPolls
    /\ poller' = [poller EXCEPT !.polls = @ + 1, !.failures = @ + 1]
    /\ UNCHANGED <<defaultVersion, now, files, req, accepted, originGets, persisted>>

\* defaultVersionPoller with a Lock() that does not wait for readers
PollLockNoWait ==
    /\ poller.mode = "poll" /\ poller.pc = "lock"
    /\ poller' = [poller EXCEPT !.pc = "locked"]
    /\ UNCHANGED <<defaultVersion, now, files, req, accepted, originGets, persisted>>

\* defaultVersionPoller, mutex.Lock(): waits until no reader holds the mutex
PollLock ==
    /\ poller.mode = "poll" /\ poller.pc = "lock"
    /\ \A h \in Handlers : req[h].pc # "rlocked"
    /\ poller' = [poller EXCEPT !.pc = "locked"]
    /\ UNCHANGED <<defaultVersion, now, files, req, accepted, originGets, persisted>>

\* defaultVersionPoller, defaultVersion = newVersion; mutex.Unlock()
PollStore ==
    /\ poller.mode = "poll" /\ poller.pc = "locked"
    /\ defaultVersion' = poller.newVersion
    /\ poller' = [poller EXCEPT !.pc = "fetch", !.newVersion = <<>>]
    /\ UNCHANGED <<now, files, req, accepted, originGets, persisted>>

\* main: CRA_PROXY_DEFAULT_VERSION set ("static", no poller) or polled from the origin
\* fetched is the value of the latest successful fetchVersion (at first the one
\* main got or was given), failures counts the failed polls
InitPoller(mode, v) ==
    [mode |-> mode, pc |-> "fetch", newVersion |-> <<>>, polls |-> 0,
     fetched |-> v, failures |-> 0]

\* a deployment with CRA_PROXY_DEFAULT_VERSION=v1 and an empty cache directory
Init ==
    /\ defaultVersion = V1
    /\ poller = InitPoller("static", defaultVersion)
    /\ now = 0
    /\ files = <<>>
    /\ req = [h \in Handlers |-> Idle]
    /\ accepted = 0
    /\ originGets = <<>>
    /\ persisted = <<>>

\* the steps of handler h on a request it has accepted
Progress(h) ==
    \/ Lookup1(h)
    \/ \E s \in OriginStatuses : FetchOk(h, s)
    \/ FetchFail(h)
    \/ Create(h)
    \/ WriteBlock(h)
    \/ WriteFail(h)
    \/ Lookup2(h)
    \/ Finish(h)

\* the steps of handler h
RequestStep(h) ==
    \/ \E p \in Paths, q \in Queries, c \in Cookies : Accept(h, p, q, c)
    \/ Progress(h)

\* the steps of handler h that take the default version from the polled accessor
DefaultStep(h, paths) ==
    \/ \E p \in paths : AcceptRLock(h, p)
    \/ ReadDefault(h)

\* the steps of the poller goroutine
PollerStep ==
    \/ \E b \in VersionFiles : PollOk(b)
    \/ PollFail
    \/ PollLock
    \/ PollStore

Next == \E h \in Handlers : RequestStep(h)

Spec == Init /\ [][Next]_vars

(***************************************************************************)
(* The handler chain as a function of the request: one request, with the   *)
(* path, query parameter, cookie, default version and clock drawn widely.  *)
(***************************************************************************)
FrontPaths ==
    {<<>>, Root, AppJs, <<"/", "x", "/", "y">>, <<"/", ".", ".">>,
     <<"/", "a", ".", "b", "/", "c">>, <<"/", "x", ".">>,
     <<"/", "a", ".", "j", "s", "/", ".", ".">>,
     <<"/", ".", ".", "/", "a", ".", "j", "s">>}
FrontQueries == {<<>>, V2, DotDot, <<".">>, <<"a", "/", "b">>, <<"1", ".", "2">>}
FrontCookies == {NoCookie, ReqCookie(<<>>), ReqCookie(V1), ReqCookie(DotDot)}
FrontDefaults == {V1, V2, <<>>}

\* main: a non-empty CRA_PROXY_DEFAULT_VERSION is served as is; otherwise the
\* default is the trimmed body of default-version.txt, which may be empty
InitFront ==
    /\ defaultVersion \in FrontDefaults
    /\ poller \in {InitPoller(m, defaultVersion) : m \in IF defaultVersion = <<>> THEN {"poll"}
                                                                               ELSE {"static", "poll"}}
    /\ now \in 0..MaxNow
    /\ files = <<>>
    /\ req = [h \in Handlers |-> Idle]
    /\ accepted = 0
    /\ originGets = <<>>
    /\ persisted = <<>>

NextFront ==
    \/ \E p \in FrontPaths, q \in FrontQueries, c \in FrontCookies : Accept("h1", p, q, c)
    \/ DefaultStep("h1", FrontPaths)

SpecFront == InitFront /\ [][NextFront]_vars

(***************************************************************************)
(* A deployment without CRA_PROXY_DEFAULT_VERSION: the default version was *)
(* fetched at startup and the poller goroutine runs beside one handler.    *)
(***************************************************************************)
InitPoll ==
    /\ defaultVersion \in {TrimSpace(b) : b \in VersionFiles}
    /\ poller = InitPoller("poll", defaultVersion)
    /\ now = 0
    /\ files = <<>>
    /\ req = [h \in Handlers |-> Idle]
    /\ accepted = 0
    /\ originGets = <<>>
    /\ persisted = <<>>

NextPoll == PollerStep \/ RequestStep("h1") \/ DefaultStep("h1", Paths)

SpecPoll == InitPoll /\ [][NextPoll]_vars

(***************************************************************************)
(* Requests for one key, with cache files removed from outside the proxy   *)
(* at any moment. Every goroutine that has a request keeps running: file   *)
(* operations return and client.Get returns within its timeout.            *)
(***************************************************************************)
\* a file of the cache directory is removed by something other than the proxy
ExternalRemove(k) ==
    /\ k \in DOMAIN files
    /\ files' = [f \in DOMAIN files \ {k} |-> files[f]]
    /\ UNCHANGED <<defaultVersion, poller, now, req, accepted, originGets, persisted>>

NextLive ==
    \/ \E h \in Handlers : Accept(h, Root, <<>>, NoCookie)
    \/ \E h \in Handlers : Progress(h)
    \/ \E k \in DOMAIN files : ExternalRemove(k)

\* the steps of h that only touch the file system or the response
FileSteps(h) == Create(h) \/ WriteBlock(h) \/ WriteFail(h) \/ Finish(h)

\* the steps of h that look the key up or ask the origin; each is enabled
\* exactly when h is at its pc, the step's body being total
KeySteps(h) == Lookup1(h) \/ (\E s \in OriginStatuses : FetchOk(h, s)) \/ FetchFail(h) \/ Lookup2(h)

AtKeyStep(h) == req[h].pc \in {"lookup1", "fetch", "lookup2"}

\* weak fairness of every step of a goroutine that holds a request; for the
\* key steps it is written out with AtKeyStep as the enabling condition
Fairness(h) ==
    /\ WF_vars(FileSteps(h))
    /\ ([]<>(~AtKeyStep(h)) \/ []<><<KeySteps(h)>>_vars)

SpecLive == Init /\ [][NextLive]_vars /\ \A h \in Handlers : Fairness(h)

(***************************************************************************)
(* A deployment with CRA_PROXY_DEV_PATHS: ProxyPaths wraps the chain and   *)
(* is the first handler to see a request.                                  *)
(***************************************************************************)
\* the rules of the proxy config file, in file order; "/p/q" also starts with "/p"
ProxyConfigs ==
    << [prefix |-> <<"/", "p", "/", "q">>, target |-> "t1"],
       [prefix |-> <<"/", "p">>, target |-> "t2"] >>

\* strings.HasPrefix
HasPrefix(str, prefix) ==
    /\ Len(prefix) <= Len(str)
    /\ SubSeq(str, 1, Len(prefix)) = prefix

\* the rules whose prefix the path starts with
Matching(p) == {i \in DOMAIN ProxyConfigs : HasPrefix(p, ProxyConfigs[i].prefix)}

\* a loop over the rules that keeps the last match
MatchRuleLast(p) ==
    IF Matching(p) = {} THEN 0
    ELSE CHOOSE i \in Matching(p) : \A j \in Matching(p) : j <= i

\* ProxyPaths: the loop over configs returns at the first rule that matches; 0 if none
MatchRule(p) ==
    IF Matching(p) = {} THEN 0
    ELSE CHOOSE i \in Matching(p) : \A j \in Matching(p) : i <= j

\* what the target answers; "error" when client.Do fails
BackendResults == {"200", "404", "error"}

\* ProxyPaths on a request some rule matches: doProxy to that rule's target,
\* with the path and query as received; next.ServeHTTP is not called
Forward(h, p, q, c, result) ==
    /\ req[h].pc = "idle"
    /\ accepted < MaxRequests
    /\ MatchRule(p) # 0
    /\ req' = [req EXCEPT ![h] =
                  [Idle EXCEPT !.pc = "done", !.origPath = p, !.query = q, !.cookie = c,
                               !.at = now,
                               !.target = ProxyConfigs[MatchRule(p)].target,
                               !.rw = [NewWriter EXCEPT
                                          !.statuses = IF result = "200" THEN <<200>>
                                                       ELSE IF result = "404" THEN <<404>>
                                                       ELSE <<502>>],
                               !.outcome = IF result = "error" THEN "bad-gateway"
                                                               ELSE "proxied"]]
    /\ accepted' = accepted + 1
    /\ UNCHANGED <<defaultVersion, poller, now, files, originGets, persisted>>

\* ProxyPaths on a request no rule matches: next.ServeHTTP with the request as it came
PassOn(h, p, q, c) ==
    /\ MatchRule(p) = 0
    /\ Accept(h, p, q, c)

ProxyInputPaths == {Root, <<"/", "p", "/", "q">>, <<"/", "p", ".", "j", "s">>}

NextProxy ==
    \/ \E p \in ProxyInputPaths, q \in Queries, c \in Cookies, r \in BackendResults :
           Forward("h1", p, q, c, r)
    \/ \E p \in ProxyInputPaths, q \in Queries, c \in Cookies : PassOn("h1", p, q, c)
    \/ Progress("h1")

SpecProxy == Init /\ [][NextProxy]_vars

(***************************************************************************)
(* Properties.                                                             *)
(***************************************************************************)
HasValue(seq, v) == \E i \in DOMAIN seq : seq[i] = v
Active == {h \in Handlers : req[h].pc \notin {"idle", "rlocked"}}
Done == {h \in Handlers : req[h].pc = "done"}

\* C1: the version token is the query parameter when it is non-empty, else the
\* value of the version-override cookie when one is present (an empty value
\* included), else the value of the default-version accessor.
C1_VersionPriority ==
    \A h \in Active :
        LET r == req[h] IN
        /\ r.query # <<>> => r.version = r.query /\ r.source = "query"
        /\ (r.query = <<>> /\ r.cookie.present)
               => r.version = r.cookie.value /\ r.source = "cookie"
        /\ (r.query = <<>> /\ ~r.cookie.present)
               => r.version = defaultVersion /\ r.source = "default"

\* C1 witness: query parameter and a different cookie both present, the query wins
C1_Witness ==
    \E h \in Active :
        /\ req[h].query # <<>> /\ req[h].cookie.present
        /\ req[h].cookie.value # req[h].query
        /\ req[h].version = req[h].query

\* C2 (as claimed): a request accepted after a doCacheFetch for its key has
\* completed is answered X-Cache: hit, with the status and body first
\* persisted, and issues no origin request.
C2_LaterRequestsHit ==
    \A h \in Done :
        req[h].late =>
            /\ req[h].rw.xcache = <<"hit">>
            /\ ClientStatus(req[h].rw) = persisted[req[h].name].status
            /\ req[h].rw.body = persisted[req[h].name].body
            /\ req[h].gets = 0

\* C3 (as claimed): a path without an extension gets the key
\* /{version}/index.html whatever the token; a path with an extension gets
\* clean("/" + join(escape(version), path)).
C3_KeyShape ==
    \A h \in Active :
        LET r == req[h] IN
        IF Ext(r.origPath) = <<>>
            THEN r.name = <<Slash>> \o PathEscape(r.version) \o IndexHtml
            ELSE r.name = Clean(<<Slash>> \o Join(PathEscape(r.version), r.origPath))

\* C4: the response carries Cache-Control: no-store and one version-override
\* Set-Cookie exactly when the version came from the query parameter or the
\* cookie, whatever the status of the response; resolved by default,
\* VersionSwitch adds neither.
C4_NoStoreIffOverride ==
    \A h \in Active :
        LET r == req[h]
            override == r.source \in {"query", "cookie"}
        IN  /\ HasValue(r.rw.cacheControl, "no-store") <=> override
            /\ (\E i \in DOMAIN r.rw.setCookie :
                    r.rw.setCookie[i].name = VERSION_COOKIE_NAME) <=> override
            /\ Len(r.rw.setCookie) = IF override THEN 1 ELSE 0

\* C4 witness: an error response of a request resolved from the cookie
C4_Witness ==
    \E h \in Done :
        /\ req[h].source = "cookie"
        /\ ClientStatus(req[h].rw) = 500
        /\ HasValue(req[h].rw.cacheControl, "no-store")
        /\ Len(req[h].rw.setCookie) = 1

\* C5 (as claimed): every version-override cookie written to a response has
\* path "/", expires one hour after the request, is not HTTP-only and has the
\* raw token as its value.
C5_CookieAttributes ==
    \A h \in Active :
        \A i \in DOMAIN req[h].rw.setCookie :
            LET ck == req[h].rw.setCookie[i] IN
            /\ ck.path = <<"/">>
            /\ ck.expires = req[h].at + Hour
            /\ ~ck.httpOnly
            /\ ck.value = req[h].version

\* C6 (as claimed): whatever status the origin answers, the request that
\* fetched and persisted it is answered with that status and X-Cache: miss,
\* and a request accepted afterwards for the key gets the same status with
\* X-Cache: hit and no second origin request.
C6_AnyStatusCached ==
    /\ \A h \in Done :
           req[h].off = Len(Serialize(req[h].res)) =>
               /\ ClientStatus(req[h].rw) = req[h].res.status
               /\ req[h].rw.xcache = <<"miss">>
    /\ \A h \in Done :
           req[h].late =>
               /\ ClientStatus(req[h].rw) = persisted[req[h].name].status
               /\ req[h].rw.xcache = <<"hit">>
               /\ req[h].gets = 0

\* C7: a request whose origin GET fails with a transport error is answered 500
\* and nothing else, has asked the origin once, and has created no file: the
\* failing step leaves the cache directory as it was.
C7_TransportError ==
    /\ [](\A h \in Handlers :
              req[h].outcome = "transport" =>
                  /\ req[h].pc = "done"
                  /\ req[h].rw.statuses = <<500>>
                  /\ req[h].gets = 1
                  /\ ~req[h].created)
    /\ [][\A h \in Handlers :
              (req[h].outcome # "transport" /\ req'[h].outcome = "transport")
                  => files' = files]_vars

\* C7 witness: a transport error on a miss, and no file at the key
C7_Witness ==
    \E h \in Done :
        /\ req[h].outcome = "transport"
        /\ ClientStatus(req[h].rw) = 500
        /\ OpenResult(files, req[h].name) = "notexist"

\* C8 (as claimed): no step of any request changes or removes a cache entry
\* that holds a complete stored response
C8_EntryImmutable ==
    [][\A k \in DOMAIN files :
          Observe(files, k) = "complete"
              => k \in DOMAIN files' /\ files'[k] = files[k]]_vars

\* C9 (as claimed): a lookup that runs while another request is writing the
\* same key finds no file or the complete stored response
C9_PutAtomic ==
    \A h \in Handlers :
        req[h].racing => req[h].observed \in {"notexist", "complete"}

\* C10 (as claimed): a finished response carries X-Cache hit or miss; hit
\* exactly when it was served from an existing entry without an origin fetch,
\* so never on an error response; miss only after an origin fetch was issued.
C10_XCacheMeaning ==
    \A h \in Done :
        LET r == req[h] IN
        /\ r.rw.xcache \in {<<"hit">>, <<"miss">>}
        /\ r.rw.xcache = <<"hit">> <=> (r.outcome = "hit" /\ r.gets = 0)
        /\ r.rw.xcache = <<"hit">> => ClientStatus(r.rw) # 500
        /\ r.rw.xcache = <<"miss">> => r.gets >= 1

\* the order of the steps of ServeHTTP
PipelineOrder ==
    {<<"idle", "lookup1">>, <<"lookup1", "done">>, <<"lookup1", "fetch">>,
     <<"fetch", "create">>, <<"fetch", "done">>, <<"create", "write">>,
     <<"create", "done">>, <<"write", "write">>, <<"write", "lookup2">>,
     <<"write", "done">>, <<"lookup2", "done">>, <<"done", "idle">>}

\* C11: a request goes lookup, then on a miss fetch, persist and a second
\* lookup, in that order; it issues at most one origin GET and at most two
\* lookups; whatever the second lookup finds, the request ends there, with
\* 500 and no further GET when it misses; no request stays in progress for
\* ever (a request in progress leaves that condition only by reaching done).
C11_RequestLifecycle ==
    /\ [](\A h \in Handlers : req[h].gets <= 1 /\ req[h].lookups <= 2)
    /\ [](\A h \in Done :
              req[h].outcome \in {"hit", "miss", "lookup-error", "transport",
                                  "create-error", "write-error", "lookup2-error"})
    /\ [][\A h \in Handlers :
              /\ req'[h] # req[h] => <<req[h].pc, req'[h].pc>> \in PipelineOrder
              /\ (req[h].pc = "lookup2" /\ req'[h] # req[h]) =>
                     /\ req'[h].pc = "done"
                     /\ req'[h].gets = req[h].gets
                     /\ OpenResult(files, req[h].name) = "notexist" =>
                            /\ ClientStatus(req'[h].rw) = 500
                            /\ req'[h].outcome = "lookup2-error"]_vars
    /\ \A h \in Handlers : []<>(req[h].pc \in {"idle", "done"})

\* C11 witness: the file vanished before the second lookup; the request failed
C11_Witness ==
    \E h \in Done :
        /\ req[h].outcome = "lookup2-error"
        /\ OpenResult(files, req[h].name) = "notexist"
        /\ req[h].lookups = 2 /\ req[h].gets = 1
        /\ ClientStatus(req[h].rw) = 500

\* C12: fetches for one key are not serialized or shared: every request that
\* missed issues an origin GET of its own and creates the file itself, also
\* while another request is fetching or writing the same key, and then its
\* os.Create is not held back by the other writer.
C12_FetchesNotSerialized ==
    \A h \in Handlers :
        /\ req[h].pc \in {"create", "write", "lookup2"} => req[h].gets = 1
        /\ req[h].pc \in {"write", "lookup2"} => req[h].created
        /\ \A g \in Handlers \ {h} :
              (Putting(g, req[h].name) /\ req[h].pc = "create") => ENABLED Create(h)

\* C12 witness: both requests missed, both asked the origin, both are writing
\* the same file
C12_Witness ==
    /\ req["h1"].pc = "write" /\ req["h2"].pc = "write"
    /\ req["h1"].name = req["h2"].name
    /\ req["h1"].created /\ req["h2"].created
    /\ req["h1"].observed = "notexist" /\ req["h2"].observed = "notexist"
    /\ originGets[OriginPath(req["h1"].name)] = 2

\* C13: no read of the default version overlaps the poller's write; a request
\* that resolves by default takes the value the accessor returns at that
\* moment, which is the latest value stored; its version and cache key then
\* stay the same until it is answered, whatever the poller stores meanwhile.
C13_DefaultVersionLocking ==
    /\ [](~(poller.pc = "locked" /\ \E h \in Handlers : req[h].pc = "rlocked"))
    /\ [][\A h \in Handlers :
              /\ (req[h].pc = "rlocked" /\ req'[h].pc # "rlocked") =>
                     /\ defaultVersion' = defaultVersion
                     /\ req'[h].source = "default"
                     /\ req'[h].version = defaultVersion
                     /\ req'[h].name =
                            Clean(VersionPath(defaultVersion, AppRewrite(req[h].origPath)))
              /\ (h \in Active /\ req'[h].pc # "idle") =>
                     /\ req'[h].version = req[h].version
                     /\ req'[h].name = req[h].name]_vars

\* C13 witness: the poller stored another default while a request that
\* resolved by default is still in flight with the value it read
C13_Witness ==
    \E h \in Active :
        /\ req[h].source = "default" /\ req[h].pc \in {"fetch", "create", "write", "lookup2"}
        /\ req[h].version # defaultVersion
        /\ IsUnder(<<Slash>> \o req[h].version, req[h].name)

\* the outcomes in which ServeHTTP called doError
Failures == {"lookup-error", "transport", "create-error", "write-error", "lookup2-error"}

\* C14 (as claimed): a request for which the pipeline reported a failure is
\* answered with status 500, and exactly one status was written for it.
C14_FailureIs500 ==
    \A h \in Done :
        req[h].outcome \in Failures =>
            /\ ClientStatus(req[h].rw) = 500
            /\ Len(req[h].rw.statuses) = 1

\* C15 (as claimed): a lookup that fails although the file is there ends the
\* request with an error status and neither asks the origin nor touches the
\* file; from then on a lookup of that key keeps failing, nothing outside the
\* proxy having changed the file.
C15_BadFileStaysBad ==
    /\ [](\A h \in Done :
              req[h].outcome = "lookup-error" =>
                  /\ req[h].gets = 0
                  /\ tryServeFile(NewWriter, files, req[h].name).err \notin {"", "notexist"})
    /\ [][\A h \in Handlers :
              (req[h].pc \in {"lookup1", "lookup2"} /\ req'[h].pc = "done"
                  /\ req'[h].outcome \in {"lookup-error", "lookup2-error"}) =>
                     files' = files /\ originGets' = originGets]_vars

\* C16 (as claimed): the key is P = clean("/" + join(escape(version), original
\* path)) when P has a file extension, and that version's /index.html when
\* P has none.
C16_RewriteAfterPrefix ==
    \A h \in Active :
        LET P == VersionPath(req[h].version, req[h].origPath) IN
        req[h].name = IF Ext(P) = <<>> THEN VersionPath(req[h].version, IndexHtml) ELSE P

\* C16 (amended): the app-shell test is applied before version prefixing, to
\* the original request path: the key is clean("/" + join(escape(version), R))
\* where R is /index.html when the original path has no file extension and
\* the original path otherwise.
C16_RewriteBeforePrefix ==
    \A h \in Active :
        LET R == IF Ext(req[h].origPath) = <<>> THEN IndexHtml ELSE req[h].origPath
        IN  req[h].name = Clean(<<Slash>> \o Join(PathEscape(req[h].version), R))

\* C16 witness: the original path has no extension but the prefixed path has
\* one (the version token has a dot), and the request got the app shell
C16_Witness ==
    \E h \in Active :
        /\ Ext(req[h].origPath) = <<>>
        /\ Ext(VersionPath(req[h].version, req[h].origPath)) # <<>>
        /\ req[h].name = VersionPath(req[h].version, IndexHtml)
        /\ req[h].name # VersionPath(req[h].version, req[h].origPath)

\* the version tokens a request of the front specification can resolve to
FrontTokens == FrontQueries \cup {c.value : c \in FrontCookies} \cup FrontDefaults

\* C17 (as claimed): the key of a request differs from the key of every other
\* pair of version token and app path (the path after the app-shell rule).
C17_KeyInjective ==
    \A h \in Active : \A v \in FrontTokens, p \in FrontPaths :
        (v # req[h].version \/ AppRewrite(p) # AppRewrite(req[h].origPath))
            => Clean(VersionPath(v, AppRewrite(p))) # req[h].name

\* C18 (as claimed): the cache key lies under the directory named by the
\* escaped version token the request resolved to.
C18_VersionIsolation ==
    \A h \in Active :
        IsUnder(<<Slash>> \o PathEscape(req[h].version), req[h].name)

\* C19: the file that tryServeFile opens and doCacheFetch creates for a
\* request is the cache root or a path under it, for every version token and
\* request path, ".." elements in either included.
C19_CacheRootContainment ==
    \A h \in Active :
        \/ FullName(req[h].name) = CacheDir
        \/ IsUnder(CacheDir, FullName(req[h].name))

\* C19 witness: the version token is ".." and the path has a ".." element;
\* the file is still under the cache root
C19_Witness ==
    \E h \in Active :
        /\ req[h].version = DotDot
        /\ \E i \in 1..(Len(req[h].origPath) - 1) :
               req[h].origPath[i] = Dot /\ req[h].origPath[i + 1] = Dot
        /\ IsUnder(CacheDir, FullName(req[h].name))

\* C20 (as claimed): after a request whose persisting failed once the
\* destination file was created, no file for the key is left for later
\* lookups to find.
C20_FailedPutLeavesNothing ==
    \A h \in Done :
        (req[h].outcome = "write-error" /\ req[h].created)
            => OpenResult(files, req[h].name) = "notexist"

\* the cache keys requests can have
FrontKeys == {Clean(VersionPath(v, AppRewrite(p))) : v \in FrontTokens, p \in FrontPaths}

\* C21 (as claimed): a step of a request changes the file of its own key at
\* most: what a lookup of any other key finds stays the same, and a request
\* that is served as a hit changes no file.
C21_OtherKeysUntouched ==
    [][\A k \in FrontKeys \cup DOMAIN files \cup DOMAIN files' :
           \/ /\ Observe(files', k) = Observe(files, k)
              /\ k \in DOMAIN files => k \in DOMAIN files' /\ files'[k] = files[k]
           \/ \E h \in Handlers :
                 /\ req[h].name = k /\ req'[h] # req[h]
                 /\ req[h].observed = "notexist"]_vars

\* C22 (as claimed): at every moment the default version is the value of the
\* most recent successful fetch.
C22_AlwaysLatestFetch ==
    poller.mode = "poll" => defaultVersion = poller.fetched

\* C22 (amended): the default version changes only when the poller stores the
\* value of a successful fetch; a failed poll changes nothing and leaves the
\* poller polling; whenever the poller is not between a successful fetch and
\* its store, the default version is the value of the most recent successful
\* fetch, and in between it is still the value of the one before.
C22_StoreAfterSuccessfulFetch ==
    /\ [](poller.mode = "poll" =>
              /\ (poller.pc = "fetch" => defaultVersion = poller.fetched)
              /\ (poller.pc \in {"lock", "locked"} => poller.newVersion = poller.fetched))
    /\ [][/\ (defaultVersion' # defaultVersion =>
                 /\ poller.pc = "locked" /\ poller'.pc = "fetch"
                 /\ defaultVersion' = poller.fetched)
           /\ (poller'.failures # poller.failures =>
                 /\ defaultVersion' = defaultVersion
                 /\ poller'.fetched = poller.fetched
                 /\ poller'.pc = "fetch")]_vars

\* C22 witness: a poll failed, a later one succeeded and its value, another
\* than the one before, has been stored
C22_Witness ==
    /\ poller.mode = "poll" /\ poller.pc = "fetch"
    /\ poller.failures = 1 /\ poller.polls = 2
    /\ defaultVersion = poller.fetched
    /\ \E h \in Active : req[h].source = "default" /\ req[h].version # defaultVersion

\* C23: with dev-proxy rules configured, a request whose path starts with a
\* configured prefix is forwarded to the target of the first rule that
\* matches, and for it there is no lookup, no origin GET, no cache file, no
\* cache key, no X-Cache header and no cookie set by the chain; a request
\* that enters the chain matches no rule and gets the key, version and
\* headers the chain gives without the proxy rules.
C23_DevProxyBypass ==
    /\ [](\A h \in Active :
              LET r == req[h]
                  m == Matching(r.origPath)
              IN  /\ (m # {}) =>
                         /\ r.pc = "done" /\ r.outcome \in {"proxied", "bad-gateway"}
                         /\ \E i \in m : /\ \A j \in m : i <= j
                                          /\ r.target = ProxyConfigs[i].target
                         /\ r.gets = 0 /\ r.lookups = 0 /\ ~r.created
                         /\ r.name = <<>> /\ r.version = <<>>
                         /\ r.rw.setCookie = <<>> /\ r.rw.xcache = <<>>
                         /\ r.rw.cacheControl = <<>>
                  /\ (m = {}) =>
                         /\ r.target = ""
                         /\ r.outcome \notin {"proxied", "bad-gateway"}
                         /\ r.name = Chain(r.origPath, r.query, r.cookie,
                                           defaultVersion, r.at).name
                         /\ r.version = Chain(r.origPath, r.query, r.cookie,
                                              defaultVersion, r.at).version
                         /\ r.rw.setCookie = SwitchCookies(r.query, r.cookie, r.at))
    /\ [][\A h \in Handlers :
              (req[h].pc = "idle" /\ req'[h].pc = "done") =>
                  files' = files /\ originGets' = originGets]_vars

\* C23 witness: a path that two rules match went to the first rule's target,
\* though the request carried a version parameter
C23_Witness ==
    \E h \in Done :
        /\ Cardinality(Matching(req[h].origPath)) = 2
        /\ req[h].target = "t1" /\ req[h].outcome = "proxied"
        /\ req[h].query = V2
        /\ req[h].rw.setCookie = <<>>
====
